---------------------------- MODULE Spec2Model ----------------------------
(***************************************************************************)
(* Model of src/steam_bot.py: the Telegram handler handle_steam_link and   *)
(* the helper functions it calls, and the life of the process around it:   *)
(* the __main__ block, main, signal_handler and shutdown_application.      *)
(*                                                                         *)
(* Representation of Python values.  A str is the record Str(s) of a      *)
(* sequence s: the inbound text and the identifiers are sequences of       *)
(* characters, a completion is a sequence of word and whitespace tokens,   *)
(* every other str is one token, S("Free").  A dict is a function from its *)
(* keys to its values (a record), the empty dict is << >>; the storefront  *)
(* details body, whose keys are identifiers, is a sequence of [key, value] *)
(* items.  A list is a sequence.  None and a raised exception are the      *)
(* records None and Raise(e).  An HTTP exchange is a record [status,       *)
(* json]: status "timeout" is an exception of requests.get or              *)
(* requests.post, "http_error" one of raise_for_status, "bad_json" one of  *)
(* response.json() on a body that is not JSON, "ok" a 2xx answer whose     *)
(* decoded body is json.                                                   *)
(***************************************************************************)
EXTENDS Integers, Sequences, FiniteSets, TLC

VARIABLES
    pc,              \* position of handle_steam_link
    message_text,    \* update.message.text
    app_id,          \* handle_steam_link: app_id
    game_details,    \* handle_steam_link: game_details
    game_name,       \* handle_steam_link: game_name
    player_rating,   \* handle_steam_link: player_rating
    game_id,         \* get_itad_deal: game_id
    itad_deal,       \* handle_steam_link: itad_deal
    game_genre,      \* handle_steam_link: game_genre
    player_analysis, \* handle_steam_link: player_analysis
    response,        \* the response object of the service call that just ended
    calls,           \* the requests issued to external services, in order
    sent,            \* the messages given to update.message.reply_text, in order
    raised,          \* the exception that left handle_steam_link, or NoExc
    credentials,     \* the four module globals read from the environment
    main_pc,         \* position of the __main__ block, main and shutdown_application
    lifecycle,       \* the chat-transport requests and application calls, in order
    shutdown_event,  \* shutdown_event.is_set()
    signal_frame,    \* signal_handler: the function the signal interrupted
    updater_running  \* application.updater.running

vars == <<pc, message_text, app_id, game_details, game_name, player_rating,
          game_id, itad_deal, game_genre, player_analysis, response, calls,
          sent, raised, credentials, main_pc, lifecycle, shutdown_event,
          signal_frame, updater_running>>

\* the state of the process outside handle_steam_link
main_vars == <<credentials, main_pc, lifecycle, shutdown_event, signal_frame,
               updater_running>>

(***************************************************************************)
(* Bounds of the model.                                                    *)
(***************************************************************************)
MaxDeals == 2      \* longest deal list of a price response
MaxPlayers == 2    \* largest N of a completion "Up to N players"

(***************************************************************************)
(* Python values.                                                          *)
(***************************************************************************)
None == [py |-> "None"]

Str(s) == [str |-> s]

S(token) == Str(<<token>>)

Raise(e) == [py |-> "raise", exc |-> e]

Exceptions == {Raise("KeyError"), Raise("AttributeError")}

NoExc == [py |-> "no exception"]

NoResponse == [status |-> "none"]

\* Python's `not x` for None, str, dict and list values
Not(x) == x = None \/ x = Str(<< >>) \/ x = << >>

\* dict.get(key, default)
Get(d, key, default) == IF key \in DOMAIN d THEN d[key] ELSE default

(***************************************************************************)
(* get_steam_app_id: re.search(r'/app/(\d+)', url)                         *)
(***************************************************************************)
Digits == {"0", "5", "7"}

\* the pattern '/app/' followed by a digit starts at position i of s
MatchAt(s, i) ==
    /\ i + 5 <= Len(s)
    /\ SubSeq(s, i, i + 4) = <<"/", "a", "p", "p", "/">>
    /\ s[i + 5] \in Digits

\* the end of the longest run of digits of s that starts at position i
RECURSIVE DigitsEnd(_, _)
DigitsEnd(s, i) ==
    IF i + 1 <= Len(s) /\ s[i + 1] \in Digits THEN DigitsEnd(s, i + 1) ELSE i

get_steam_app_id_slashless(url) ==
    LET hits == {i \in 1..Len(url.str) :
                    /\ i + 4 <= Len(url.str)
                    /\ SubSeq(url.str, i, i + 3) = <<"a", "p", "p", "/">>
                    /\ url.str[i + 4] \in Digits}
    IN  IF hits = {} THEN None
        ELSE LET i == CHOOSE h \in hits : \A k \in hits : h <= k
             IN  Str(SubSeq(url.str, i + 4, DigitsEnd(url.str, i + 4)))

get_steam_app_id(url) ==
    LET hits == {i \in 1..Len(url.str) : MatchAt(url.str, i)}
    IN  IF hits = {} THEN None
        ELSE LET i == CHOOSE h \in hits : \A k \in hits : h <= k
             IN  Str(SubSeq(url.str, i + 5, DigitsEnd(url.str, i + 5)))

\* the inbound texts of the model
Messages ==
    { Str(<<"h", "i">>),
      Str(<<"/", "a", "p", "p", "/">>),
      Str(<<"/", "a", "p", "p", "/", "x">>),
      Str(<<"a", "p", "p", "/", "5">>),
      Str(<<"/", "a", "p", "/", "5">>),
      Str(<<"/", "a", "p", "p", "5">>),
      Str(<<"/", "A", "p", "p", "/", "5">>),
      Str(<<"/", "a", "p", "p", "/", "5">>),
      Str(<<"x", "/", "a", "p", "p", "/", "5", "7", "/", "y">>),
      Str(<<"/", "a", "p", "p", "/", "x", "/", "a", "p", "p", "/", "7">>),
      Str(<<"/", "a", "p", "p", "/", "5", "/", "a", "p", "p", "/", "7">>) }

(***************************************************************************)
(* get_steam_game_details                                                  *)
(***************************************************************************)
\* the exchanges that end in a requests.exceptions.RequestException; the
\* JSONDecodeError of response.json() is one of them (requests 2.27 and later)
Failures ==
    { [status |-> "timeout"], [status |-> "http_error"], [status |-> "bad_json"] }

Ok(body) == [status |-> "ok", json |-> body]

Genre(d) == [description |-> S(d)]

\* the "data" objects of the storefront details endpoint
DetailsData ==
    { \* a priced game with four genres
      [name |-> S("Dota 2"), is_free |-> FALSE,
       price_overview |-> [final_formatted |-> S("$9.99")],
       genres |-> <<Genre("Action"), Genre("Strategy"), Genre("RPG"), Genre("Indie")>>,
       categories |-> <<Genre("Multi-player")>>],
      \* a free game that still carries a price, no genres
      [name |-> S("Team Fortress 2"), is_free |-> TRUE,
       price_overview |-> [final_formatted |-> S("$4.99")],
       categories |-> <<Genre("Action Co-op"), Genre("Steam Cloud")>>],
      \* only a description: no name, no price, no genres, no categories
      [short_description |-> S("A game.")],
      \* a price overview without its formatted string
      [name |-> S("Dota 2"), price_overview |-> [final |-> 999]],
      \* a genre without its description
      [name |-> S("Dota 2"), is_free |-> TRUE, genres |-> <<[id |-> S("1")]>>],
      \* a category without its description
      [name |-> S("Dota 2"), is_free |-> TRUE, categories |-> <<[id |-> 2]>>],
      \* an empty object
      << >> }

OtherAppId == Str(<<"9">>)

Item(k, v) == [key |-> k, value |-> v]

Keys(items) == {items[i].key : i \in 1..Len(items)}

\* items[k] for a key k of items
Value(items, k) == items[CHOOSE i \in 1..Len(items) : items[i].key = k].value

DetailsBodies(id) ==
    { << >>,
      <<Item(OtherAppId, [success |-> FALSE])>>,
      <<Item(id, << >>)>>,
      <<Item(id, [success |-> FALSE])>>,
      <<Item(id, [success |-> TRUE])>> }
    \cup { <<Item(id, [success |-> TRUE, data |-> d])>> : d \in DetailsData }

DetailsResponses(id) == Failures \cup { Ok(b) : b \in DetailsBodies(id) }

get_steam_game_details_ignores_flag(id, resp) ==
    IF resp.status # "ok" THEN None
    ELSE LET data == resp.json IN
         IF data = << >> THEN None
         ELSE IF id \notin Keys(data) THEN Raise("KeyError")
         ELSE IF "success" \notin DOMAIN Value(data, id) THEN Raise("KeyError")
         ELSE Get(Value(data, id), "data", Value(data, id))

get_steam_game_details(id, resp) ==
    IF resp.status # "ok" THEN None      \* except RequestException
    ELSE LET data == resp.json IN
         IF data = << >> THEN None       \* `data and ...`
         ELSE IF id \notin Keys(data) THEN Raise("KeyError")
         ELSE IF "success" \notin DOMAIN Value(data, id) THEN Raise("KeyError")
         ELSE IF Value(data, id).success
              THEN IF "data" \notin DOMAIN Value(data, id) THEN Raise("KeyError")
                   ELSE Value(data, id).data
              ELSE None

(***************************************************************************)
(* get_steam_player_rating                                                 *)
(***************************************************************************)
RatingBodies ==
    { << >>,
      [success |-> 2],
      [success |-> 1],
      [query_summary |-> [review_score_desc |-> S("Very Positive")]],
      [success |-> 1, query_summary |-> << >>],
      [success |-> 1, query_summary |-> [total_reviews |-> 0]],
      [success |-> 1,
       query_summary |-> [review_score_desc |-> S("Very Positive"), total_reviews |-> 9]],
      [success |-> 1,
       query_summary |-> [review_score_desc |-> S("Mostly Negative")]] }

RatingResponses == Failures \cup { Ok(b) : b \in RatingBodies }

get_steam_player_rating(resp) ==
    IF resp.status # "ok" THEN None      \* except RequestException
    ELSE LET data == resp.json IN
         IF data # << >> /\ "success" \in DOMAIN data /\ data.success = 1
         THEN Get(data, "query_summary", None)
         ELSE None

(***************************************************************************)
(* get_rating_emoji                                                        *)
(***************************************************************************)
\* str.lower() on the one-token strings of the model
Lower(s) ==
    CASE s = S("Very Positive") -> S("very positive")
      [] s = S("Mostly Negative") -> S("mostly negative")
      [] s = S("No rating found") -> S("no rating found")
      [] s = S("Multi-player") -> S("multi-player")
      [] s = S("Action Co-op") -> S("action co-op")
      [] s = S("Steam Cloud") -> S("steam cloud")
      [] OTHER -> s

\* `word in s` for the lower-case one-token strings of the model
Within(word, s) ==
    word \in ( CASE s = S("very positive") -> {"very positive", "positive"}
                 [] s = S("mostly negative") -> {"mostly negative", "negative"}
                 [] s = S("action co-op") -> {"action"}
                 [] OTHER -> {} )

get_rating_emoji(rating_text) ==
    LET rating_lower == Lower(rating_text) IN
    IF \E w \in {"overwhelmingly positive", "very positive", "mostly positive",
                 "positive"} : Within(w, rating_lower)
    THEN "green circle"
    ELSE IF \E w \in {"mixed", "mostly negative"} : Within(w, rating_lower)
    THEN "yellow circle"
    ELSE IF \E w \in {"overwhelmingly negative", "very negative", "negative"} :
                Within(w, rating_lower)
    THEN "red circle"
    ELSE "white circle"

(***************************************************************************)
(* get_game_genres                                                         *)
(***************************************************************************)
Min(a, b) == IF a <= b THEN a ELSE b

\* ', '.join(names) for a list of one-token strings
RECURSIVE JoinTokens(_)
JoinTokens(names) ==
    IF names = << >> THEN << >>
    ELSE IF Len(names) = 1 THEN names[1].str
    ELSE names[1].str \o <<", ">> \o JoinTokens(Tail(names))

Join(names) == Str(JoinTokens(names))

\* some item of the list has no 'description': item['description'] raises
LacksDescription(items) ==
    \E i \in 1..Len(items) : "description" \notin DOMAIN items[i]

\* [item['description'] for item in items]
Descriptions(items) == [i \in 1..Len(items) |-> items[i].description]

GenreTerms == {"action", "adventure", "strategy", "rpg", "simulation", "sports",
               "racing"}

\* any(term in description.lower() for term in [...])
GenreLike(description) ==
    \E term \in GenreTerms : Within(term, Lower(description))

\* the genre-like members of a list of descriptions, in order
RECURSIVE GenreCategories(_)
GenreCategories(list) ==
    IF list = << >> THEN << >>
    ELSE IF GenreLike(Head(list)) THEN <<Head(list)>> \o GenreCategories(Tail(list))
    ELSE GenreCategories(Tail(list))

get_game_genres(details) ==
    LET genres == Get(details, "genres", << >>)
        categories == Get(details, "categories", << >>)
        first3 == SubSeq(genres, 1, Min(3, Len(genres)))
        genre_categories == GenreCategories(Descriptions(categories))
    IN  IF genres # << >>
        THEN IF LacksDescription(first3) THEN Raise("KeyError")
             ELSE Join(Descriptions(first3))
        ELSE IF categories # << >>
        THEN IF LacksDescription(categories) THEN Raise("KeyError")
             ELSE IF genre_categories # << >>
             THEN Join(SubSeq(genre_categories, 1, Min(2, Len(genre_categories))))
             ELSE S("Genre not available")
        ELSE S("Genre not available")

(***************************************************************************)
(* format_price                                                            *)
(***************************************************************************)
format_price_price_first(details) ==
    IF "price_overview" \in DOMAIN details
    THEN IF "final_formatted" \in DOMAIN details.price_overview
         THEN details.price_overview.final_formatted
         ELSE Raise("KeyError")
    ELSE IF Get(details, "is_free", FALSE) THEN S("Free")
    ELSE S("Price not available")

\* lines 155-160
format_price(details) ==
    IF Get(details, "is_free", FALSE) THEN S("Free")
    ELSE IF "price_overview" \in DOMAIN details
    THEN IF "final_formatted" \in DOMAIN details.price_overview
         THEN details.price_overview.final_formatted
         ELSE Raise("KeyError")
    ELSE S("Price not available")

(***************************************************************************)
(* analyze_players_with_llm                                                *)
(***************************************************************************)
Whitespace == {" ", "\n"}

\* str.strip() on a sequence of word and whitespace tokens
RECURSIVE LStrip(_)
LStrip(t) ==
    IF t # << >> /\ Head(t) \in Whitespace THEN LStrip(Tail(t)) ELSE t

RECURSIVE RStrip(_)
RStrip(t) ==
    IF t # << >> /\ t[Len(t)] \in Whitespace
    THEN RStrip(SubSeq(t, 1, Len(t) - 1)) ELSE t

Strip(s) == Str(RStrip(LStrip(s.str)))

UpTo(n) == Str(<<"Up", " ", "to", " ", ToString(n), " ", "players">>)

\* the message contents of the completion service
Contents ==
    { Str(<< >>),
      Str(<<" ", "\n">>),
      Str(<<" ", "Single-player", "\n">>),
      Str(<<"Multiplayer">>),
      Str(<<"This", " ", "game", " ", "supports", " ", "co-op">>) }
    \cup { UpTo(n) : n \in 0..MaxPlayers }

Choice(content) == [message |-> [content |-> content]]

CompletionResponses ==
    Failures
    \cup { Ok([choices |-> << >>]), Ok([choices |-> <<Choice(None)>>]) }
    \cup { Ok([choices |-> <<Choice(c)>>]) : c \in Contents }

\* lines 105-108: the prompt data; the comprehension over the categories
\* is outside the try block
prompt_data(details) ==
    IF LacksDescription(Get(details, "categories", << >>))
    THEN Raise("KeyError")
    ELSE [game_name |-> Get(details, "name", S("Unknown Game")),
          categories |-> Descriptions(Get(details, "categories", << >>))]

analyze_players_with_llm_default(resp) ==
    IF resp.status # "ok" THEN S("Single-player")
    ELSE IF resp.json.choices = << >> THEN S("Single-player")
    ELSE IF resp.json.choices[1].message.content = None
    THEN S("Single-player")
    ELSE Strip(resp.json.choices[1].message.content)

\* lines 139-153
analyze_players_with_llm(resp) ==
    IF resp.status # "ok" THEN None                       \* except Exception
    ELSE IF resp.json.choices = << >> THEN None           \* IndexError, caught
    ELSE IF resp.json.choices[1].message.content = None
    THEN None                                             \* AttributeError, caught
    ELSE Strip(resp.json.choices[1].message.content)

(***************************************************************************)
(* get_itad_deal                                                           *)
(***************************************************************************)
IdX == S("018d937f-X")

IdY == S("018d937f-Y")

LookupBodies ==
    { << >>,
      [found |-> FALSE],
      [found |-> TRUE],
      [found |-> TRUE, game |-> [slug |-> S("dota-2")]],
      [found |-> TRUE, game |-> [id |-> Str(<< >>)]],
      [found |-> TRUE, game |-> [id |-> IdX, slug |-> S("dota-2")]],
      [found |-> TRUE, game |-> [id |-> IdY, slug |-> S("dota-2")]] }

LookupResponses == Failures \cup { Ok(b) : b \in LookupBodies }

lookup_game_id_slug(lookup_data, id_before) ==
    IF Get(lookup_data, "found", FALSE)
    THEN IF "game" \in DOMAIN lookup_data /\ "slug" \in DOMAIN lookup_data.game
         THEN lookup_data.game.slug
         ELSE Raise("KeyError")
    ELSE id_before

\* lines 173-175 and 186-188: the game_id after a decoded lookup response
lookup_game_id(lookup_data, id_before) ==
    IF Get(lookup_data, "found", FALSE)
    THEN IF "game" \in DOMAIN lookup_data /\ "id" \in DOMAIN lookup_data.game
         THEN lookup_data.game.id
         ELSE Raise("KeyError")
    ELSE id_before

fallback_needed_always(id) == TRUE

\* line 180: `if not game_id`
fallback_needed(id) == Not(id)

\* line 194: `if game_id`
price_query_needed(id) == ~Not(id)

\* line 200: the body of the price request
price_payload(id) == <<id>>

\* the deal entries of the price endpoint; amounts are in cents
DealEntries ==
    { [price |-> [amount |-> 499], shop |-> [name |-> S("GOG")], cut |-> 50,
       url |-> S("https://gog.example/dota")],
      [price |-> [amount |-> 1000], shop |-> [name |-> S("Humble")], cut |-> 0],
      [price |-> [amount |-> 705], shop |-> [name |-> S("Fanatical")], cut |-> 5,
       url |-> Str(<< >>)],
      [price |-> [currency |-> S("USD")], shop |-> [name |-> S("Steam")],
       cut |-> 10],
      [price |-> [amount |-> 250], shop |-> [id |-> 61], cut |-> 75,
       url |-> S("https://shop.example/dota")] }

\* the non-empty lists of deal entries of at most n entries
RECURSIVE DealLists(_)
DealLists(n) ==
    IF n = 0 THEN {}
    ELSE { <<e>> : e \in DealEntries }
         \cup { Append(l, e) : l \in DealLists(n - 1), e \in DealEntries }

PriceBodies ==
    { << >>,
      <<[id |-> IdX]>>,
      <<[id |-> IdX, deals |-> << >>]>> }
    \cup { <<[id |-> IdX, deals |-> d]>> : d \in DealLists(MaxDeals) }

PriceResponses == Failures \cup { Ok(b) : b \in PriceBodies }

\* lines 210-215: the quote made of a deal entry, or the caught KeyError
deal_quote(best_deal) ==
    IF /\ "price" \in DOMAIN best_deal /\ "amount" \in DOMAIN best_deal.price
       /\ "shop" \in DOMAIN best_deal /\ "name" \in DOMAIN best_deal.shop
       /\ "cut" \in DOMAIN best_deal
    THEN [price |-> best_deal.price.amount,
          store |-> best_deal.shop.name,
          cut |-> best_deal.cut,
          url |-> Get(best_deal, "url", Str(<< >>))]
    ELSE None

price_result_last(resp) ==
    IF resp.status # "ok" THEN None
    ELSE LET price_data == resp.json IN
         IF price_data # << >>
         THEN LET game_data == price_data[1] IN
              IF Get(game_data, "deals", << >>) # << >>
              THEN deal_quote(game_data.deals[Len(game_data.deals)])
              ELSE None
         ELSE None

\* lines 202-220: the result of get_itad_deal after the price query
price_result(resp) ==
    IF resp.status # "ok" THEN None      \* except RequestException
    ELSE LET price_data == resp.json IN
         IF price_data # << >>
         THEN LET game_data == price_data[1] IN
              IF Get(game_data, "deals", << >>) # << >>
              THEN deal_quote(game_data.deals[1])
              ELSE None
         ELSE None

(***************************************************************************)
(* The messages of handle_steam_link                                       *)
(***************************************************************************)
DetailsNotice ==
    [text |-> S("Sorry, I couldn't fetch details for that game."), quote |-> TRUE]

AnalysisNotice ==
    [text |-> S("Sorry, the player analysis AI is having trouble right now."),
     quote |-> TRUE]

\* f"{x:.2f}" for an amount of x cents
Fmt2f(cents) ==
    Str(<<ToString(cents \div 100), ".", ToString((cents % 100) \div 10),
          ToString(cents % 10)>>)

\* line 250
rating_text_of(rating) ==
    IF Not(rating) THEN S("No rating found")
    ELSE Get(rating, "review_score_desc", S("No rating found"))

deal_text_always_link(deal) ==
    [section |-> "deal", link |-> TRUE, href |-> Get(deal, "url", Str(<< >>)),
     price |-> Fmt2f(deal.price), cut |-> deal.cut, store |-> deal.store]

\* lines 265-273: the deal line
deal_text(deal) ==
    IF ~Not(Get(deal, "url", Str(<< >>)))
    THEN [section |-> "deal", link |-> TRUE, href |-> deal.url,
          price |-> Fmt2f(deal.price), cut |-> deal.cut, store |-> deal.store]
    ELSE [section |-> "deal", link |-> FALSE,
          price |-> Fmt2f(deal.price), cut |-> deal.cut, store |-> deal.store]

\* lines 249-273: reply_parts
reply_parts(id, name, rating, genre, analysis, steam_price, deal) ==
    <<[section |-> "blank"],
      [section |-> "title", text |-> name],
      [section |-> "rating", emoji |-> get_rating_emoji(rating_text_of(rating)),
       text |-> rating_text_of(rating)],
      [section |-> "genre", text |-> genre],
      [section |-> "players", text |-> analysis],
      [section |-> "price", href |-> [steam_app |-> id], text |-> steam_price]>>
    \o (IF Not(deal) THEN << >> ELSE <<deal_text(deal)>>)

\* lines 275-280: the arguments of reply_text; join stands for "\n".join
FullReply(parts) ==
    [text |-> [join |-> parts], parse_mode |-> "HTML", quote |-> TRUE,
     disable_web_page_preview |-> TRUE]

(***************************************************************************)
(* The requests of the service calls.  Each of the five requests.get and   *)
(* requests.post calls passes timeout=10; the chat.completions.create call *)
(* passes no timeout argument.                                             *)
(***************************************************************************)
RequestTimeout == 10

\* lines 40-42
DetailsRequest(id) ==
    [svc |-> "details", app_id |-> id, timeout |-> RequestTimeout]

\* lines 52-54
ReviewsRequest(id) ==
    [svc |-> "reviews", app_id |-> id, timeout |-> RequestTimeout]

\* lines 169-172
LookupByAppIdRequest(id) ==
    [svc |-> "itad_lookup", appid |-> id, timeout |-> RequestTimeout]

\* lines 183-185
LookupByTitleRequest(name) ==
    [svc |-> "itad_lookup", title |-> [quote |-> name], timeout |-> RequestTimeout]

\* lines 194-201
PricesRequest(id) ==
    [svc |-> "itad_prices", payload |-> price_payload(id),
     timeout |-> RequestTimeout]

\* lines 140-148
CompletionRequest(details) ==
    [svc |-> "completion", model |-> "gpt-4o-mini",
     prompt |-> prompt_data(details)]

(***************************************************************************)
(* handle_steam_link, step by step                                         *)
(***************************************************************************)
HandlerInit ==
    /\ pc = "idle"
    /\ message_text = Str(<< >>)
    /\ app_id = None
    /\ game_details = None
    /\ game_name = Str(<< >>)
    /\ player_rating = None
    /\ game_id = None
    /\ itad_deal = None
    /\ game_genre = Str(<< >>)
    /\ player_analysis = None
    /\ response = NoResponse
    /\ calls = << >>
    /\ sent = << >>
    /\ raised = NoExc

(***************************************************************************)
(* The credentials, lines 17-20 and 318: os.getenv gives None for a        *)
(* variable that is not set and '' for one set to nothing.                 *)
(***************************************************************************)
CredentialNames ==
    {"TELEGRAM_TOKEN", "STEAM_API_KEY", "OPENAI_API_KEY", "ITAD_API_KEY"}

Key == S("key")

CredentialValues == {None, Str(<< >>), Key}

all_credentials_any(c) == \E n \in CredentialNames : ~Not(c[n])

\* line 318: all([TELEGRAM_TOKEN, STEAM_API_KEY, OPENAI_API_KEY, ITAD_API_KEY])
all_credentials(c) == \A n \in CredentialNames : ~Not(c[n])

(***************************************************************************)
(* The entries of lifecycle: the requests of the __main__ block to the     *)
(* chat transport, and the calls of main and shutdown_application.         *)
(***************************************************************************)
SessionTimeout == 5

\* lines 370-371
DeleteWebhookRequest(token) ==
    [op |-> "deleteWebhook", token |-> token, timeout |-> SessionTimeout]

\* lines 373-374
GetUpdatesRequest(token) ==
    [op |-> "getUpdates", token |-> token, offset |-> -1,
     timeout |-> SessionTimeout]

Op(name) == [op |-> name]

\* lines 323-338
BuildLog == <<Op("signal.signal"), Op("build"), Op("add_handler")>>

\* the entries of a start in which every step succeeded
StartupLog(token) ==
    <<DeleteWebhookRequest(token), GetUpdatesRequest(token)>> \o BuildLog
    \o <<Op("initialize"), Op("start"), Op("start_polling")>>

\* the handler in a bot that has started polling and waits at line 357
Init ==
    /\ HandlerInit
    /\ credentials = [n \in CredentialNames |-> Key]
    /\ main_pc = "waiting"
    /\ lifecycle = StartupLog(Key)
    /\ shutdown_event = FALSE
    /\ signal_frame = "none"
    /\ updater_running = TRUE

\* lines 224-227: a text update is dispatched to the handler; updates are
\* dispatched while main waits at line 357 and no handler is running (from
\* "done" and "replying" the earlier handler returns first)
Receive ==
    /\ main_pc = "waiting"
    /\ updater_running
    /\ pc \in {"idle", "done", "replying"}
    /\ \E text \in Messages :
         /\ message_text' = text
         /\ app_id' = get_steam_app_id(text)
         /\ pc' = IF Not(get_steam_app_id(text)) THEN "done" ELSE "details"
    /\ game_details' = None
    /\ game_name' = Str(<< >>)
    /\ player_rating' = None
    /\ game_id' = None
    /\ itad_deal' = None
    /\ game_genre' = Str(<< >>)
    /\ player_analysis' = None
    /\ response' = NoResponse
    /\ calls' = << >>
    /\ sent' = << >>
    /\ raised' = NoExc
    /\ UNCHANGED main_vars

FetchDetails_no_return ==
    /\ pc = "details"
    /\ \E resp \in DetailsResponses(app_id) :
         LET r == get_steam_game_details(app_id, resp) IN
         /\ response' = resp
         /\ calls' = Append(calls, DetailsRequest(app_id))
         /\ IF r \in Exceptions
            THEN /\ raised' = r
                 /\ pc' = "done"
                 /\ UNCHANGED <<game_details, game_name, sent>>
            ELSE /\ game_details' = r
                 /\ raised' = NoExc
                 /\ pc' = "rating"
                 /\ IF Not(r)
                    THEN /\ sent' = Append(sent, DetailsNotice)
                         /\ UNCHANGED game_name
                    ELSE /\ game_name' = Get(r, "name", S("Unknown Game"))
                         /\ UNCHANGED sent
    /\ UNCHANGED <<message_text, app_id, player_rating, game_id, itad_deal,
                   game_genre, player_analysis>>
    /\ UNCHANGED main_vars

\* lines 231-236
FetchDetails ==
    /\ pc = "details"
    /\ \E resp \in DetailsResponses(app_id) :
         LET r == get_steam_game_details(app_id, resp) IN
         /\ response' = resp
         /\ calls' = Append(calls, DetailsRequest(app_id))
         /\ IF r \in Exceptions
            THEN /\ raised' = r
                 /\ pc' = "done"
                 /\ UNCHANGED <<game_details, game_name, sent>>
            ELSE /\ game_details' = r
                 /\ raised' = NoExc
                 /\ IF Not(r)
                    THEN /\ sent' = Append(sent, DetailsNotice)
                         /\ pc' = "replying"
                         /\ UNCHANGED game_name
                    ELSE /\ game_name' = Get(r, "name", S("Unknown Game"))
                         /\ pc' = "rating"
                         /\ UNCHANGED sent
    /\ UNCHANGED <<message_text, app_id, player_rating, game_id, itad_deal,
                   game_genre, player_analysis>>
    /\ UNCHANGED main_vars

FetchRating_retries ==
    /\ pc = "rating"
    /\ \E resp \in RatingResponses :
         /\ response' = resp
         /\ player_rating' = get_steam_player_rating(resp)
         /\ pc' = IF resp \in Failures THEN "rating" ELSE "lookup1"
    /\ calls' = Append(calls, ReviewsRequest(app_id))
    /\ UNCHANGED <<message_text, app_id, game_details, game_name, game_id,
                   itad_deal, game_genre, player_analysis, sent, raised>>
    /\ UNCHANGED main_vars

\* line 238
FetchRating ==
    /\ pc = "rating"
    /\ \E resp \in RatingResponses :
         /\ response' = resp
         /\ player_rating' = get_steam_player_rating(resp)
    /\ calls' = Append(calls, ReviewsRequest(app_id))
    /\ pc' = "lookup1"
    /\ UNCHANGED <<message_text, app_id, game_details, game_name, game_id,
                   itad_deal, game_genre, player_analysis, sent, raised>>
    /\ UNCHANGED main_vars

\* lines 166-177: get_itad_deal, the lookup by storefront identifier
ItadLookupByAppId ==
    /\ pc = "lookup1"
    /\ calls' = Append(calls, LookupByAppIdRequest(app_id))
    /\ \E resp \in LookupResponses :
         LET g == IF resp.status # "ok" THEN None
                  ELSE lookup_game_id(resp.json, None) IN
         /\ response' = resp
         /\ IF g \in Exceptions
            THEN /\ raised' = g
                 /\ pc' = "done"
                 /\ UNCHANGED game_id
            ELSE /\ game_id' = g
                 /\ pc' = IF fallback_needed(g) THEN "lookup2"
                          ELSE IF price_query_needed(g) THEN "prices"
                          ELSE "genre"
                 /\ UNCHANGED raised
    /\ UNCHANGED <<message_text, app_id, game_details, game_name, player_rating,
                   itad_deal, game_genre, player_analysis, sent>>
    /\ UNCHANGED main_vars

\* lines 180-191: get_itad_deal, the lookup by title
ItadLookupByTitle ==
    /\ pc = "lookup2"
    /\ calls' = Append(calls, LookupByTitleRequest(game_name))
    /\ \E resp \in LookupResponses :
         LET g == IF resp.status # "ok" THEN None
                  ELSE lookup_game_id(resp.json, game_id) IN
         /\ response' = resp
         /\ IF g \in Exceptions
            THEN /\ raised' = g
                 /\ pc' = "done"
                 /\ UNCHANGED game_id
            ELSE /\ game_id' = IF resp.status # "ok" THEN game_id ELSE g
                 /\ pc' = IF resp.status = "ok" /\ price_query_needed(g)
                          THEN "prices" ELSE "genre"
                 /\ UNCHANGED raised
    /\ UNCHANGED <<message_text, app_id, game_details, game_name, player_rating,
                   itad_deal, game_genre, player_analysis, sent>>
    /\ UNCHANGED main_vars

\* lines 194-220: get_itad_deal, the price query
ItadPrices ==
    /\ pc = "prices"
    /\ calls' = Append(calls, PricesRequest(game_id))
    /\ \E resp \in PriceResponses :
         /\ response' = resp
         /\ itad_deal' = price_result(resp)
    /\ pc' = "genre"
    /\ UNCHANGED <<message_text, app_id, game_details, game_name, player_rating,
                   game_id, game_genre, player_analysis, sent, raised>>
    /\ UNCHANGED main_vars

\* line 242 and lines 105-138: the genre line and the prompt
PrepareAnalysis ==
    /\ pc = "genre"
    /\ response' = NoResponse
    /\ IF get_game_genres(game_details) \in Exceptions
       THEN /\ raised' = get_game_genres(game_details)
            /\ pc' = "done"
            /\ UNCHANGED game_genre
       ELSE /\ game_genre' = get_game_genres(game_details)
            /\ IF prompt_data(game_details) \in Exceptions
               THEN /\ raised' = prompt_data(game_details)
                    /\ pc' = "done"
               ELSE /\ pc' = "llm"
                    /\ UNCHANGED raised
    /\ UNCHANGED <<message_text, app_id, game_details, game_name, player_rating,
                   game_id, itad_deal, player_analysis, calls, sent>>
    /\ UNCHANGED main_vars

\* lines 139-153 and 245-280: the completion call and the reply
CallCompletion ==
    /\ pc = "llm"
    /\ calls' = Append(calls, CompletionRequest(game_details))
    /\ \E resp \in CompletionResponses :
         LET analysis == analyze_players_with_llm(resp)
             steam_price == format_price(game_details) IN
         /\ response' = resp
         /\ player_analysis' = analysis
         /\ IF Not(analysis)
            THEN /\ sent' = Append(sent, AnalysisNotice)
                 /\ pc' = "replying"
                 /\ UNCHANGED raised
            ELSE IF steam_price \in Exceptions
            THEN /\ raised' = steam_price
                 /\ pc' = "done"
                 /\ UNCHANGED sent
            ELSE /\ sent' = Append(sent, FullReply(reply_parts(app_id, game_name,
                                    player_rating, game_genre, analysis,
                                    steam_price, itad_deal)))
                 /\ pc' = "replying"
                 /\ UNCHANGED raised
    /\ UNCHANGED <<message_text, app_id, game_details, game_name, player_rating,
                   game_id, itad_deal, game_genre>>
    /\ UNCHANGED main_vars

Next ==
    \/ Receive
    \/ FetchDetails
    \/ FetchRating
    \/ ItadLookupByAppId
    \/ ItadLookupByTitle
    \/ ItadPrices
    \/ PrepareAnalysis
    \/ CallCompletion

Spec == Init /\ [][Next]_vars

(***************************************************************************)
(* The process: the __main__ block, main, signal_handler and               *)
(* shutdown_application.  handle_steam_link has no await before its        *)
(* reply_text, so the event loop runs main only when no handler runs or    *)
(* when the handler is suspended in its await of reply_text (lines 233,    *)
(* 246, 275): every step of main has the guard LoopFree.  Each awaited     *)
(* call of the application either returns or raises.  main_pc = "exited"   *)
(* says that main has made its last call; the handler suspended then       *)
(* either gets its reply_text back during that call or is cancelled when   *)
(* asyncio.run ends.  At pc = "done" the code of the handler is at its     *)
(* end and has not yet returned to the event loop.                         *)
(***************************************************************************)
BotInit ==
    /\ HandlerInit
    /\ credentials \in [CredentialNames -> CredentialValues]
    /\ main_pc = "session"
    /\ lifecycle = << >>
    /\ shutdown_event = FALSE
    /\ signal_frame = "none"
    /\ updater_running = FALSE

\* no handler holds the event loop: none runs, or it awaits reply_text
LoopFree == pc \in {"idle", "replying"}

handler_vars == <<pc, message_text, app_id, game_details, game_name,
                  player_rating, game_id, itad_deal, game_genre,
                  player_analysis, response, calls, sent, raised>>

\* the step of main at position from: the call named op is logged and main
\* goes to position to when it returns and to position failed when it raises
MainStep(from, op, to, failed) ==
    /\ main_pc = from
    /\ LoopFree
    /\ lifecycle' = Append(lifecycle, Op(op))
    /\ \E returns \in BOOLEAN : main_pc' = IF returns THEN to ELSE failed
    /\ UNCHANGED handler_vars
    /\ UNCHANGED <<credentials, shutdown_event, signal_frame>>

\* lines 370-371 and 377-378: requests.get(webhook_url, timeout=5)
DeleteWebhook ==
    /\ main_pc = "session"
    /\ lifecycle' = Append(lifecycle,
                           DeleteWebhookRequest(credentials["TELEGRAM_TOKEN"]))
    /\ \E returns \in BOOLEAN :
         main_pc' = IF returns THEN "session2" ELSE "main"
    /\ UNCHANGED handler_vars
    /\ UNCHANGED <<credentials, shutdown_event, signal_frame, updater_running>>

\* lines 373-378: requests.get(updates_url, timeout=5)
GetUpdates ==
    /\ main_pc = "session2"
    /\ lifecycle' = Append(lifecycle,
                           GetUpdatesRequest(credentials["TELEGRAM_TOKEN"]))
    /\ main_pc' = "main"
    /\ UNCHANGED handler_vars
    /\ UNCHANGED <<credentials, shutdown_event, signal_frame, updater_running>>

\* lines 381 and 318-320
CheckCredentials ==
    /\ main_pc = "main"
    /\ main_pc' = IF all_credentials(credentials) THEN "build" ELSE "exited"
    /\ UNCHANGED handler_vars
    /\ UNCHANGED <<credentials, lifecycle, shutdown_event, signal_frame,
                   updater_running>>

\* lines 323-338
BuildApplication ==
    /\ main_pc = "build"
    /\ lifecycle' = lifecycle \o BuildLog
    /\ main_pc' = "initialize"
    /\ UNCHANGED handler_vars
    /\ UNCHANGED <<credentials, shutdown_event, signal_frame, updater_running>>

\* line 344
Initialize ==
    /\ MainStep("initialize", "initialize", "start", "finally")
    /\ UNCHANGED updater_running

\* line 345
Start ==
    /\ MainStep("start", "start", "start_polling", "finally")
    /\ UNCHANGED updater_running

\* lines 348-352
StartPolling ==
    /\ MainStep("start_polling", "start_polling", "waiting", "finally")
    /\ updater_running' = (main_pc' = "waiting")

\* lines 284-287 and 323-324: a signal arrives, any number of times, once
\* the handlers are set and until the process ends (main_pc = "exited" says
\* only that main has made its last call).  frame is the function the signal
\* interrupts: handle_steam_link while its code is on the stack, from its
\* first line (225) to its return, and the event loop while no handler runs
\* or the handler is suspended in its await of reply_text
signal_handler ==
    /\ \E i \in 1..Len(lifecycle) : lifecycle[i].op = "signal.signal"
    /\ shutdown_event' = TRUE
    /\ signal_frame' = IF LoopFree THEN "event loop" ELSE "handle_steam_link"
    /\ UNCHANGED handler_vars
    /\ UNCHANGED <<credentials, main_pc, lifecycle, updater_running>>

\* lines 357 and 361-363: shutdown_event.wait() returns
AwaitShutdown ==
    /\ main_pc = "waiting"
    /\ LoopFree
    /\ shutdown_event
    /\ main_pc' = "finally"
    /\ UNCHANGED handler_vars
    /\ UNCHANGED <<credentials, lifecycle, shutdown_event, signal_frame,
                   updater_running>>

\* lines 293-296: the updater is stopped if it is running
StopUpdater ==
    /\ main_pc = "finally"
    /\ LoopFree
    /\ IF updater_running
       THEN /\ lifecycle' = lifecycle \o <<[op |-> "updater.running",
                                             value |-> TRUE],
                                           Op("updater.stop")>>
            /\ \E returns \in BOOLEAN :
                 /\ main_pc' = IF returns THEN "stop" ELSE "force"
                 /\ updater_running' = ~returns
       ELSE /\ lifecycle' = Append(lifecycle, [op |-> "updater.running",
                                               value |-> FALSE])
            /\ main_pc' = "stop"
            /\ UNCHANGED updater_running
    /\ UNCHANGED handler_vars
    /\ UNCHANGED <<credentials, shutdown_event, signal_frame>>

\* lines 298-300
StopApplication ==
    /\ MainStep("stop", "stop", "shutdown", "force")
    /\ UNCHANGED updater_running

\* lines 302-304
ShutdownApplication ==
    /\ MainStep("shutdown", "shutdown", "exited", "force")
    /\ UNCHANGED updater_running

\* lines 305-309 and 312-313
ForceStopUpdater ==
    /\ MainStep("force", "updater.stop", "force_stop", "exited")
    /\ updater_running' = (updater_running /\ main_pc' = "exited")

\* lines 310 and 312-313
ForceStopApplication ==
    /\ MainStep("force_stop", "stop", "force_shutdown", "exited")
    /\ UNCHANGED updater_running

\* lines 311-313
ForceShutdownApplication ==
    /\ MainStep("force_shutdown", "shutdown", "exited", "exited")
    /\ UNCHANGED updater_running

\* lines 233, 246 and 275: the awaited reply_text returns and the handler
\* runs on to its return statement
ReplyReturns ==
    /\ pc = "replying"
    /\ pc' = "done"
    /\ UNCHANGED <<message_text, app_id, game_details, game_name, player_rating,
                   game_id, itad_deal, game_genre, player_analysis, response,
                   calls, sent, raised>>
    /\ UNCHANGED main_vars

\* lines 227, 234, 247 and 280: handle_steam_link returns to the event loop,
\* or an exception leaves it
Return ==
    /\ pc = "done"
    /\ pc' = "idle"
    /\ message_text' = Str(<< >>)
    /\ app_id' = None
    /\ game_details' = None
    /\ game_name' = Str(<< >>)
    /\ player_rating' = None
    /\ game_id' = None
    /\ itad_deal' = None
    /\ game_genre' = Str(<< >>)
    /\ player_analysis' = None
    /\ response' = NoResponse
    /\ calls' = << >>
    /\ sent' = << >>
    /\ raised' = NoExc
    /\ UNCHANGED main_vars

Cancelled == Raise("CancelledError")

\* line 381 and lines 233, 246, 275: main has ended while the handler awaits
\* reply_text; asyncio.run cancels the handler
Cancel ==
    /\ main_pc = "exited"
    /\ pc = "replying"
    /\ pc' = "done"
    /\ raised' = Cancelled
    /\ UNCHANGED <<message_text, app_id, game_details, game_name, player_rating,
                   game_id, itad_deal, game_genre, player_analysis, response,
                   calls, sent>>
    /\ UNCHANGED main_vars

BotNext ==
    \/ Next
    \/ ReplyReturns
    \/ Return
    \/ Cancel
    \/ DeleteWebhook
    \/ GetUpdates
    \/ CheckCredentials
    \/ BuildApplication
    \/ Initialize
    \/ Start
    \/ StartPolling
    \/ signal_handler
    \/ AwaitShutdown
    \/ StopUpdater
    \/ StopApplication
    \/ ShutdownApplication
    \/ ForceStopUpdater
    \/ ForceStopApplication
    \/ ForceShutdownApplication

BotSpec == BotInit /\ [][BotNext]_vars

(***************************************************************************)
(* Vocabulary of the properties                                            *)
(***************************************************************************)
\* the text contains '/app/' followed by a digit
HasAppPattern(text) == \E i \in 1..Len(text.str) : MatchAt(text.str, i)

IsFullReply(m) == "parse_mode" \in DOMAIN m

LastCall == calls[Len(calls)]

\* the service call that just ended was a call of svc
JustCalled(svc) ==
    /\ calls # << >>
    /\ LastCall.svc = svc
    /\ response # NoResponse

\* the handler has reached its end, the await of its reply_text or a return,
\* for a message in which an identifier was found
Ended == pc \in {"done", "replying"} /\ ~Not(app_id)

(***************************************************************************)
(* C1: for every message with an identifier and every combination of       *)
(* answers of the services, handle_steam_link ends having sent one message, *)
(* the full reply or one of the two notices, and without an exception.      *)
(* The code violates it: a KeyError leaves the handler.                     *)
(***************************************************************************)
C1_AlwaysReplies ==
    Ended =>
        /\ raised = NoExc
        /\ Len(sent) = 1
        /\ \/ sent[1] \in {DetailsNotice, AnalysisNotice}
           \/ IsFullReply(sent[1])

(***************************************************************************)
(* C2: a text without the pattern '/app/<digits>' yields no identifier, no  *)
(* request to any service and no reply.                                     *)
(***************************************************************************)
C2_NoPatternNoAction ==
    ~HasAppPattern(message_text) =>
        /\ app_id = None
        /\ pc \in {"idle", "done"}
        /\ calls = << >>
        /\ sent = << >>
        /\ raised = NoExc

C2_Witness ==
    /\ pc = "done"
    /\ message_text = Str(<<"a", "p", "p", "/", "5">>)
    /\ app_id = None
    /\ calls = << >>

(***************************************************************************)
(* C3: when the details fetch fails (transport error, non-2xx status or     *)
(* success flag false) the handler ends with the details notice as its only *)
(* message, the details request is the only request, and no other service   *)
(* is ever called while no details are held.                                *)
(***************************************************************************)
DetailsFetchFailed ==
    /\ JustCalled("details")
    /\ \/ response \in Failures
       \/ /\ response.status = "ok"
          /\ app_id \in Keys(response.json)
          /\ "success" \in DOMAIN Value(response.json, app_id)
          /\ ~Value(response.json, app_id).success

C3_DetailsFailureNotice ==
    /\ DetailsFetchFailed =>
          /\ pc = "replying"
          /\ sent = <<DetailsNotice>>
          /\ calls = <<DetailsRequest(app_id)>>
          /\ raised = NoExc
    /\ Len(calls) > 1 => ~Not(game_details)

C3_Witness ==
    /\ DetailsFetchFailed
    /\ response.status = "ok"
    /\ sent = <<DetailsNotice>>

(***************************************************************************)
(* C4: when the completion call fails (transport error, exception while     *)
(* reading the response, empty content) analyze_players_with_llm returns    *)
(* None and the handler sends exactly the analysis notice; no reply carries *)
(* a player line that the completion service did not return.                *)
(* As stated it fails: for an empty or blank content the function returns   *)
(* the empty str, not None.  C4_Amended is the statement that holds.        *)
(***************************************************************************)
Content == response.json.choices[1].message.content

Blank(s) == \A i \in 1..Len(s.str) : s.str[i] \in Whitespace

CompletionRaised ==
    /\ JustCalled("completion")
    /\ \/ response.status # "ok"
       \/ response.json.choices = << >>
       \/ Content = None

CompletionEmpty ==
    /\ JustCalled("completion")
    /\ response.status = "ok"
    /\ response.json.choices # << >>
    /\ Content # None
    /\ Blank(Content)

\* the tokens of part occur in whole, in order and adjacent
Occurs(part, whole) ==
    \E i \in 1..Len(whole) : \E j \in i..Len(whole) : SubSeq(whole, i, j) = part

PlayerLines(m) ==
    {m.text.join[i].text : i \in {k \in 1..Len(m.text.join) :
                                     m.text.join[k].section = "players"}}

ReturnedPlayerLines ==
    \A i \in 1..Len(sent) :
        IsFullReply(sent[i]) =>
            /\ JustCalled("completion")
            /\ ~CompletionRaised
            /\ ~CompletionEmpty
            /\ \A line \in PlayerLines(sent[i]) : Occurs(line.str, Content.str)

C4_Original ==
    /\ (CompletionRaised \/ CompletionEmpty) =>
          /\ player_analysis = None
          /\ sent = <<AnalysisNotice>>
    /\ ReturnedPlayerLines

C4_Amended ==
    /\ CompletionRaised => player_analysis = None
    /\ CompletionEmpty => player_analysis = Str(<< >>)
    /\ (CompletionRaised \/ CompletionEmpty) =>
          /\ sent = <<AnalysisNotice>>
          /\ pc = "replying"
          /\ raised = NoExc
    /\ ReturnedPlayerLines

C4_Witness ==
    /\ CompletionEmpty
    /\ Content = Str(<<" ", "\n">>)
    /\ player_analysis = Str(<< >>)
    /\ sent = <<AnalysisNotice>>

(***************************************************************************)
(* C5: whatever stage of get_itad_deal fails (transport error, not found,   *)
(* empty game or deal list, a response without game.id, price.amount or     *)
(* shop.name), get_itad_deal returns None without raising and the handler   *)
(* goes on.  The code violates it: a lookup response that reports found     *)
(* without game.id raises a KeyError that no except clause catches.         *)
(***************************************************************************)
LookupReturnedId(resp) ==
    /\ resp.status = "ok"
    /\ Get(resp.json, "found", FALSE)
    /\ "game" \in DOMAIN resp.json
    /\ "id" \in DOMAIN resp.json.game
    /\ resp.json.game.id # Str(<< >>)

WellFormedDeal(deal) ==
    /\ "price" \in DOMAIN deal /\ "amount" \in DOMAIN deal.price
    /\ "shop" \in DOMAIN deal /\ "name" \in DOMAIN deal.shop
    /\ "cut" \in DOMAIN deal

HasDeals(resp) ==
    /\ resp.status = "ok"
    /\ resp.json # << >>
    /\ "deals" \in DOMAIN resp.json[1]
    /\ resp.json[1].deals # << >>

DealStageFailed ==
    \/ JustCalled("itad_lookup") /\ ~LookupReturnedId(response)
    \/ /\ JustCalled("itad_prices")
       /\ ~(HasDeals(response) /\ WellFormedDeal(response.json[1].deals[1]))

C5_DealFailureNeverAborts ==
    DealStageFailed =>
        /\ raised = NoExc
        /\ itad_deal = None
        /\ pc \in {"lookup2", "genre"}

(***************************************************************************)
(* C6: the lookup by title is issued if and only if the lookup by           *)
(* storefront identifier ended without a catalog id, by a transport error   *)
(* or by a 'not found' answer; when that lookup yields an id the next       *)
(* request is the price query and no lookup by title is issued.             *)
(***************************************************************************)
DirectLookupEnded == JustCalled("itad_lookup") /\ "appid" \in DOMAIN LastCall

\* a transport error, an answer that does not report found, or an empty id
NoIdYielded(resp) ==
    \/ resp.status # "ok"
    \/ ~Get(resp.json, "found", FALSE)
    \/ /\ "game" \in DOMAIN resp.json
       /\ "id" \in DOMAIN resp.json.game
       /\ resp.json.game.id = Str(<< >>)

Issued(svc) ==
    /\ Len(calls') = Len(calls) + 1
    /\ calls'[Len(calls')].svc = svc

TitleLookupIssued ==
    Issued("itad_lookup") /\ "title" \in DOMAIN calls'[Len(calls')]

C6_FallbackIffNoId ==
    [][ /\ TitleLookupIssued => DirectLookupEnded /\ NoIdYielded(response)
        /\ (DirectLookupEnded /\ NoIdYielded(response))' => pc' = "lookup2"
        /\ pc = "lookup2" => TitleLookupIssued
        /\ (DirectLookupEnded /\ LookupReturnedId(response)) =>
              ~TitleLookupIssued /\ Issued("itad_prices") ]_vars

C6_Witness ==
    /\ JustCalled("itad_lookup")
    /\ "title" \in DOMAIN LastCall
    /\ Len(calls) = 4
    /\ "appid" \in DOMAIN calls[3]

(***************************************************************************)
(* C7: the price query is issued if and only if one of the two lookups      *)
(* returned a catalog id, and its payload is exactly that id, also when the *)
(* id comes from the lookup by title after a failed direct lookup.          *)
(***************************************************************************)
C7_PriceQueryWithReturnedId ==
    [][ /\ Issued("itad_prices") =>
              /\ JustCalled("itad_lookup")
              /\ LookupReturnedId(response)
              /\ calls'[Len(calls')].payload = <<response.json.game.id>>
        /\ (JustCalled("itad_lookup") /\ LookupReturnedId(response))' =>
              pc' = "prices"
        /\ pc = "prices" => Issued("itad_prices") ]_vars

C7_Witness ==
    /\ JustCalled("itad_prices")
    /\ Len(calls) = 5
    /\ "appid" \in DOMAIN calls[3]
    /\ "title" \in DOMAIN calls[4]
    /\ LastCall.payload = <<IdY>>

(***************************************************************************)
(* C8: after a price response with a deal list of one or more entries the   *)
(* quote of get_itad_deal has the store, amount, discount and URL of the    *)
(* first entry whatever the other entries are (None when the first entry    *)
(* lacks a field), and a reply has at most one deal line.                   *)
(***************************************************************************)
QuoteOf(entry) ==
    [price |-> entry.price.amount,
     store |-> entry.shop.name,
     cut |-> entry.cut,
     url |-> IF "url" \in DOMAIN entry THEN entry.url ELSE Str(<< >>)]

DealLines(m) ==
    {k \in 1..Len(m.text.join) : m.text.join[k].section = "deal"}

C8_FirstDealIsQuoted ==
    /\ (JustCalled("itad_prices") /\ HasDeals(response)) =>
          LET first == response.json[1].deals[1] IN
          IF WellFormedDeal(first) THEN itad_deal = QuoteOf(first)
          ELSE itad_deal = None
    /\ \A i \in 1..Len(sent) :
          IsFullReply(sent[i]) => Cardinality(DealLines(sent[i])) <= 1

C8_Witness ==
    /\ JustCalled("itad_prices")
    /\ HasDeals(response)
    /\ Len(response.json[1].deals) >= 2
    /\ WellFormedDeal(response.json[1].deals[2])
    /\ response.json[1].deals[1].shop = [name |-> S("Humble")]
    /\ response.json[1].deals[2].shop = [name |-> S("GOG")]
    /\ itad_deal.store = S("Humble")

(***************************************************************************)
(* C9: a section of the reply is present only if its source succeeded: with *)
(* details, no review summary, no deal and a player analysis the reply has  *)
(* exactly the title, the player line and the price line.  The code         *)
(* violates it: the rating line is composed also when get_steam_player_     *)
(* rating returned None, then reading 'No rating found' (lines 250 and      *)
(* 259), and the genre line is always composed (line 260).                  *)
(***************************************************************************)
Sections(m) == {m.text.join[k].section : k \in 1..Len(m.text.join)}

C9_SectionsFollowSources ==
    \A i \in 1..Len(sent) :
        (IsFullReply(sent[i]) /\ Not(player_rating) /\ Not(itad_deal)) =>
            Sections(sent[i]) \ {"blank"} = {"title", "players", "price"}

(***************************************************************************)
(* C10: in every full reply the player line is "Single-player",             *)
(* "Multiplayer" or "Up to N players" for a positive N; a completion        *)
(* outside this vocabulary never reaches the user.  The code violates it:   *)
(* the stripped completion is used as it is.                                *)
(***************************************************************************)
Vocabulary ==
    {S("Single-player"), S("Multiplayer")} \cup {UpTo(n) : n \in 1..(MaxPlayers + 1)}

C10_ClosedVocabulary ==
    \A i \in 1..Len(sent) :
        IsFullReply(sent[i]) => PlayerLines(sent[i]) \subseteq Vocabulary

(***************************************************************************)
(* C11: get_steam_game_details and get_steam_player_rating never raise;     *)
(* for a transport error, a timeout, a non-2xx status, a body that is not   *)
(* JSON, a body without the identifier key or without the success flag,     *)
(* and a success flag that is false, each returns None.  The code violates  *)
(* it: get_steam_game_details subscripts the body, and the KeyError of a    *)
(* missing key is not a RequestException.                                   *)
(***************************************************************************)
DetailsUnusable(resp) ==
    \/ resp \in Failures
    \/ /\ resp.status = "ok"
       /\ \/ app_id \notin Keys(resp.json)
          \/ "success" \notin DOMAIN Value(resp.json, app_id)
          \/ ~Value(resp.json, app_id).success

RatingUnusable(resp) ==
    \/ resp \in Failures
    \/ /\ resp.status = "ok"
       /\ Get(resp.json, "success", 0) # 1

C11_StorefrontNeverRaises ==
    /\ JustCalled("details") =>
          /\ raised = NoExc
          /\ DetailsUnusable(response) => game_details = None
    /\ JustCalled("reviews") =>
          /\ raised = NoExc
          /\ RatingUnusable(response) => player_rating = None

(***************************************************************************)
(* C12: while the handler of one message waits for the answer of a service, *)
(* the handler of another message can start.  The code violates it:         *)
(* handle_steam_link calls requests and openai synchronously and has no     *)
(* await before its reply, and the application is built without concurrent  *)
(* updates, so no update is dispatched until the running handler has ended. *)
(***************************************************************************)
InFlight == pc \in {"details", "rating", "lookup1", "lookup2", "prices", "llm"}

C12_PipelinesOverlap == InFlight => ENABLED Receive

(***************************************************************************)
(* C13: every request of the pipeline, the completion call included,        *)
(* carries an explicit timeout.  The code violates it: the call of          *)
(* chat.completions.create passes none.                                     *)
(***************************************************************************)
C13_EveryCallHasTimeout ==
    \A i \in 1..Len(calls) : "timeout" \in DOMAIN calls[i]

(***************************************************************************)
(* C14: while one message is handled no request is repeated: the details,   *)
(* review, price and completion requests are issued at most once each, the  *)
(* lookup at most twice, once by identifier and once by title, and the      *)
(* handler issues at most six requests.                                     *)
(***************************************************************************)
CallsOf(svc) == {i \in 1..Len(calls) : calls[i].svc = svc}

C14_NoRetries ==
    /\ \A svc \in {"details", "reviews", "itad_prices", "completion"} :
          Cardinality(CallsOf(svc)) <= 1
    /\ Cardinality({i \in CallsOf("itad_lookup") : "appid" \in DOMAIN calls[i]}) <= 1
    /\ Cardinality({i \in CallsOf("itad_lookup") : "title" \in DOMAIN calls[i]}) <= 1
    /\ Len(calls) <= 6

C14_Witness ==
    /\ pc = "replying"
    /\ Len(calls) = 6
    /\ Cardinality(CallsOf("itad_lookup")) = 2
    /\ calls[2].timeout = RequestTimeout

(***************************************************************************)
(* C15: when one of the four credentials is absent or empty at startup the  *)
(* bot does not start: no application is built, no handler is registered,   *)
(* polling never begins and handle_steam_link never runs.                   *)
(***************************************************************************)
Ops == {lifecycle[i].op : i \in 1..Len(lifecycle)}

CredentialMissing ==
    \E n \in CredentialNames : credentials[n] \in {None, Str(<< >>)}

C15_NoStartWithoutCredentials ==
    CredentialMissing =>
        /\ Ops \cap {"build", "add_handler", "initialize", "start",
                     "start_polling"} = {}
        /\ ~updater_running
        /\ main_pc \in {"session", "session2", "main", "exited"}
        /\ pc = "idle"
        /\ message_text = Str(<< >>)
        /\ calls = << >>
        /\ sent = << >>

C15_Witness ==
    /\ main_pc = "exited"
    /\ credentials["TELEGRAM_TOKEN"] = Key
    /\ credentials["STEAM_API_KEY"] = Key
    /\ credentials["OPENAI_API_KEY"] = Key
    /\ credentials["ITAD_API_KEY"] = Str(<< >>)

(***************************************************************************)
(* C16: format_price gives "Free" when the free flag is set, whatever the   *)
(* price data is; otherwise the formatted string of the price overview when *)
(* an overview is present; otherwise "Price not available"; and the price   *)
(* line of a full reply carries that result.  (An overview that holds no    *)
(* formatted string has no such result: the KeyError of that case belongs   *)
(* to C1.)                                                                  *)
(***************************************************************************)
PriceByPrecedence(details, price) ==
    IF "is_free" \in DOMAIN details /\ details.is_free
    THEN price = S("Free")
    ELSE IF "price_overview" \in DOMAIN details
    THEN "final_formatted" \in DOMAIN details.price_overview =>
            price = details.price_overview.final_formatted
    ELSE price = S("Price not available")

PriceTexts(m) ==
    {m.text.join[k].text : k \in {j \in 1..Len(m.text.join) :
                                     m.text.join[j].section = "price"}}

C16_PricePrecedence ==
    /\ game_details # None =>
          PriceByPrecedence(game_details, format_price(game_details))
    /\ \A i \in 1..Len(sent) :
          IsFullReply(sent[i]) =>
              /\ Cardinality(PriceTexts(sent[i])) = 1
              /\ \A price \in PriceTexts(sent[i]) :
                    PriceByPrecedence(game_details, price)

C16_Witness ==
    /\ pc = "replying"
    /\ Len(sent) = 1
    /\ IsFullReply(sent[1])
    /\ game_details # None
    /\ Get(game_details, "is_free", FALSE)
    /\ "price_overview" \in DOMAIN game_details
    /\ PriceTexts(sent[1]) = {S("Free")}

(***************************************************************************)
(* C17: a full reply has a deal section if and only if get_itad_deal        *)
(* returned a quote; the deal section is the last section; it is a          *)
(* hyperlink to the purchase URL of the quote exactly when that URL is not  *)
(* empty, and plain text otherwise.                                         *)
(***************************************************************************)
C17_DealSection ==
    \A i \in 1..Len(sent) :
        IsFullReply(sent[i]) =>
            LET parts == sent[i].text.join IN
            /\ (DealLines(sent[i]) # {}) <=> (itad_deal # None)
            /\ DealLines(sent[i]) \subseteq {Len(parts)}
            /\ \A k \in DealLines(sent[i]) :
                  /\ parts[k].link <=> (itad_deal.url # Str(<< >>))
                  /\ parts[k].link => parts[k].href = itad_deal.url
                  /\ ~parts[k].link => "href" \notin DOMAIN parts[k]
                  /\ parts[k].store = itad_deal.store

C17_Witness ==
    /\ pc = "replying"
    /\ Len(sent) = 1
    /\ IsFullReply(sent[1])
    /\ itad_deal # None
    /\ itad_deal.url = Str(<< >>)
    /\ DealLines(sent[1]) = {7}
    /\ ~sent[1].text.join[7].link

(***************************************************************************)
(* C18: for each handled message at most one message is sent; it is one of  *)
(* the two notices or a reply with all its sections; once it is sent the    *)
(* handler issues no further request and sends nothing more; also when a    *)
(* shutdown signal arrives while the handler runs.                          *)
(***************************************************************************)
Whole(m) ==
    \/ m \in {DetailsNotice, AnalysisNotice}
    \/ /\ IsFullReply(m)
       /\ {"title", "rating", "genre", "players", "price"} \subseteq Sections(m)

C18_OneWholeMessage ==
    [][ /\ Len(sent') <= 1
        /\ \A i \in 1..Len(sent') : Whole(sent'[i])
        /\ sent # << >> =>
              /\ sent' \in {sent, << >>}
              /\ calls' \in {calls, << >>} ]_vars

\* the reply with all its sections is handed over, after all the requests of
\* the pipeline, in a handler that a signal interrupted: signal_handler ran in
\* the frame of handle_steam_link and main has not run since
C18_Witness ==
    /\ pc = "replying"
    /\ raised = NoExc
    /\ Len(sent) = 1
    /\ IsFullReply(sent[1])
    /\ Len(calls) >= 5
    /\ shutdown_event
    /\ signal_frame = "handle_steam_link"
    /\ main_pc = "waiting"

(***************************************************************************)
(* C19: nothing is sent to the chat transport before the credential check   *)
(* of main has passed; with a credential missing the process ends without   *)
(* a deleteWebhook or getUpdates request.  The code violates it: the        *)
(* __main__ block sends both requests before it runs main.                  *)
(***************************************************************************)
CredentialCheckPassed ==
    /\ main_pc \notin {"session", "session2", "main"}
    /\ ~CredentialMissing

C19_NoTransportBeforeCheck ==
    ~CredentialCheckPassed => lifecycle = << >>

(***************************************************************************)
(* C20: when main ends after the application was built,                     *)
(* shutdown_application has run and application.shutdown() has been         *)
(* invoked, each time after an application.stop() and after the updater     *)
(* stop was attempted (invoked, or left out at line 294 because the updater *)
(* is not running).  The code violates it: a step of the force sequence     *)
(* that raises ends the sequence, and shutdown() is never invoked.          *)
(***************************************************************************)
Positions(ops) == {i \in 1..Len(lifecycle) : lifecycle[i].op \in ops}

C20_ShutdownAlwaysInvoked ==
    (main_pc = "exited" /\ "build" \in Ops) =>
        /\ Positions({"updater.running"}) # {}
        /\ Positions({"shutdown"}) # {}
        /\ \A k \in Positions({"shutdown"}) :
              /\ \E j \in Positions({"stop"}) : j < k
              /\ \E j \in Positions({"updater.stop", "updater.running"}) : j < k

=============================================================================
